---------------------------- MODULE Spec2Model ----------------------------
(***************************************************************************)
(* rkvm client: connection race, TLS + version handshake, the timeout      *)
(* bounded message loop raced against ctrl-c (client/src/main.rs), the     *)
(* server address parser (client/src/config.rs), the Event <-> input_event *)
(* translation (input/src/linux/event.rs) and the virtual devices the      *)
(* events are injected through (input/src/linux/event_writer.rs).          *)
(***************************************************************************)
EXTENDS Integers, Sequences, FiniteSets, TLC

(***************************************************************************)
(* Bounds of the model.                                                    *)
(***************************************************************************)
NumServers == 3      \* candidate server names are 1..NumServers
MaxDelay   == 1      \* an attempt completes at a time in 0..MaxDelay
MaxVersion == 3      \* the peer announces a version in 0..MaxVersion
MaxWrites  == 2      \* Event messages delivered in one session
MaxDelta   == 2      \* deltas -MaxDelta..MaxDelta, beside the i32 extremes
MaxType    == 3      \* raw event types 0..MaxType
MaxCode    == 340    \* raw event codes 0..MaxCode
MaxLen     == 6      \* length of a server description string
MaxErrno   == 2      \* a failing native call returns -MaxErrno..-1

(***************************************************************************)
(* Constants of the net crate the client imports (main.rs:6, main.rs:78).  *)
(* MESSAGE_TIMEOUT is counted in ticks of the model's clock.               *)
(***************************************************************************)
PROTOCOL_VERSION == 2
MESSAGE_TIMEOUT  == 2

(***************************************************************************)
(* Constants of the glue bindings (linux/input-event-codes.h).             *)
(***************************************************************************)
EV_SYN            == 0
EV_KEY            == 1
EV_REL            == 2
SYN_REPORT        == 0
REL_X             == 0
REL_Y             == 1
REL_WHEEL         == 8
REL_WHEEL_HI_RES  == 11
REL_HWHEEL_HI_RES == 12

MaxI32 == 2147483647
MinI32 == -MaxI32 - 1
MaxU16 == 65535

None    == << >>
Some(x) == << x >>

(***************************************************************************)
(* The portable event model (crate::event).  Key and Button are closed     *)
(* enumerations mapped both ways to raw codes; a representative part of    *)
(* each table is kept, with the kernel's codes.                            *)
(***************************************************************************)
KeyTable    == [A |-> 30, MicMute |-> 248]
ButtonTable == [Left |-> 272, Right |-> 273, Middle |-> 274, Side |-> 275,
                GearUp |-> 337]

Keys    == DOMAIN KeyTable
Buttons == DOMAIN ButtonTable

KeyToRaw(key)       == KeyTable[key]
ButtonToRaw(button) == ButtonTable[button]

KeyFromRaw(code) ==
    IF \E k \in Keys : KeyTable[k] = code
    THEN Some(CHOOSE k \in Keys : KeyTable[k] = code)
    ELSE None

ButtonFromRaw(code) ==
    IF \E b \in Buttons : ButtonTable[b] = code
    THEN Some(CHOOSE b \in Buttons : ButtonTable[b] = code)
    ELSE None

KindKey(key)       == [tag |-> "Key", id |-> key]
KindButton(button) == [tag |-> "Button", id |-> button]
NoKind             == [tag |-> "-", id |-> "-"]

KeyKinds == {KindKey(k) : k \in Keys} \cup {KindButton(b) : b \in Buttons}

MouseMove(axis, delta) ==
    [tag |-> "MouseMove", axis |-> axis, scroll |-> "-", delta |-> delta,
     direction |-> "-", kind |-> NoKind]
MouseScroll(delta, scroll) ==
    [tag |-> "MouseScroll", axis |-> "-", scroll |-> scroll, delta |-> delta,
     direction |-> "-", kind |-> NoKind]
Key(direction, kind) ==
    [tag |-> "Key", axis |-> "-", scroll |-> "-", delta |-> 0,
     direction |-> direction, kind |-> kind]

Axes       == {"X", "Y"}
Scrolls    == {"Lo", "HiRes", "HiResH"}
Directions == {"Up", "Down"}
Deltas     == {MinI32, MaxI32} \cup (-MaxDelta .. MaxDelta)

Events ==
    {MouseMove(a, d) : a \in Axes, d \in Deltas}
    \cup {MouseScroll(d, s) : d \in Deltas, s \in Scrolls}
    \cup {Key(dir, k) : dir \in Directions, k \in KeyKinds}

(***************************************************************************)
(* input_event, and the translation of event.rs.                           *)
(***************************************************************************)
input_event(type, code, value) ==
    [type_ |-> type, code |-> code, value |-> value, time |-> 0]

KeyKindToRaw(kind) ==
    IF kind.tag = "Key" THEN KeyToRaw(kind.id) ELSE ButtonToRaw(kind.id)

KeyKindFromRaw(code) ==
    IF KeyFromRaw(code) # None
    THEN Some(KindKey(KeyFromRaw(code)[1]))
    ELSE IF ButtonFromRaw(code) # None
         THEN Some(KindButton(ButtonFromRaw(code)[1]))
         ELSE None

(* to_raw with the values of Up and Down exchanged. *)
ToRawSwapped(event) ==
    CASE event.tag = "MouseScroll" /\ event.scroll = "Lo" ->
            input_event(EV_REL, REL_WHEEL, event.delta)
      [] event.tag = "MouseScroll" /\ event.scroll = "HiRes" ->
            input_event(EV_REL, REL_WHEEL_HI_RES, event.delta)
      [] event.tag = "MouseScroll" /\ event.scroll = "HiResH" ->
            input_event(EV_REL, REL_HWHEEL_HI_RES, event.delta)
      [] event.tag = "MouseMove" /\ event.axis = "X" ->
            input_event(EV_REL, REL_X, event.delta)
      [] event.tag = "MouseMove" /\ event.axis = "Y" ->
            input_event(EV_REL, REL_Y, event.delta)
      [] event.tag = "Key" /\ event.direction = "Up" ->
            input_event(EV_KEY, KeyKindToRaw(event.kind), 1)
      [] event.tag = "Key" /\ event.direction = "Down" ->
            input_event(EV_KEY, KeyKindToRaw(event.kind), 0)

ToRaw(event) ==
    CASE event.tag = "MouseScroll" /\ event.scroll = "Lo" ->
            input_event(EV_REL, REL_WHEEL, event.delta)
      [] event.tag = "MouseScroll" /\ event.scroll = "HiRes" ->
            input_event(EV_REL, REL_WHEEL_HI_RES, event.delta)
      [] event.tag = "MouseScroll" /\ event.scroll = "HiResH" ->
            input_event(EV_REL, REL_HWHEEL_HI_RES, event.delta)
      [] event.tag = "MouseMove" /\ event.axis = "X" ->
            input_event(EV_REL, REL_X, event.delta)
      [] event.tag = "MouseMove" /\ event.axis = "Y" ->
            input_event(EV_REL, REL_Y, event.delta)
      [] event.tag = "Key" /\ event.direction = "Up" ->
            input_event(EV_KEY, KeyKindToRaw(event.kind), 0)
      [] event.tag = "Key" /\ event.direction = "Down" ->
            input_event(EV_KEY, KeyKindToRaw(event.kind), 1)

(* from_raw taking every EV_KEY value other than 0 for a press. *)
FromRawAnyPress(raw) ==
    CASE raw.type_ = EV_REL /\ raw.code = REL_WHEEL ->
            Some(MouseScroll(raw.value, "Lo"))
      [] raw.type_ = EV_REL /\ raw.code = REL_WHEEL_HI_RES ->
            Some(MouseScroll(raw.value, "HiRes"))
      [] raw.type_ = EV_REL /\ raw.code = REL_HWHEEL_HI_RES ->
            Some(MouseScroll(raw.value, "HiResH"))
      [] raw.type_ = EV_REL /\ raw.code = REL_X ->
            Some(MouseMove("X", raw.value))
      [] raw.type_ = EV_REL /\ raw.code = REL_Y ->
            Some(MouseMove("Y", raw.value))
      [] raw.type_ = EV_KEY /\ raw.value = 0 ->
            IF KeyKindFromRaw(raw.code) = None THEN None
            ELSE Some(Key("Up", KeyKindFromRaw(raw.code)[1]))
      [] raw.type_ = EV_KEY /\ raw.value # 0 ->
            IF KeyKindFromRaw(raw.code) = None THEN None
            ELSE Some(Key("Down", KeyKindFromRaw(raw.code)[1]))
      [] OTHER -> None

FromRaw(raw) ==
    CASE raw.type_ = EV_REL /\ raw.code = REL_WHEEL ->
            Some(MouseScroll(raw.value, "Lo"))
      [] raw.type_ = EV_REL /\ raw.code = REL_WHEEL_HI_RES ->
            Some(MouseScroll(raw.value, "HiRes"))
      [] raw.type_ = EV_REL /\ raw.code = REL_HWHEEL_HI_RES ->
            Some(MouseScroll(raw.value, "HiResH"))
      [] raw.type_ = EV_REL /\ raw.code = REL_X ->
            Some(MouseMove("X", raw.value))
      [] raw.type_ = EV_REL /\ raw.code = REL_Y ->
            Some(MouseMove("Y", raw.value))
      [] raw.type_ = EV_KEY /\ raw.value = 0 ->
            IF KeyKindFromRaw(raw.code) = None THEN None
            ELSE Some(Key("Up", KeyKindFromRaw(raw.code)[1]))
      [] raw.type_ = EV_KEY /\ raw.value = 1 ->
            IF KeyKindFromRaw(raw.code) = None THEN None
            ELSE Some(Key("Down", KeyKindFromRaw(raw.code)[1]))
      [] OTHER -> None

(***************************************************************************)
(* Device::write_raw (event_writer.rs:62-87).  `emitted` is the sequence   *)
(* of raw (type, code, value) triples the uinput handle has accepted.      *)
(* failAt is the index of the first libevdev_uinput_write_event call that  *)
(* returns a negative value (0: none does).                                *)
(***************************************************************************)
SynEvent == << EV_SYN, SYN_REPORT, 0 >>

RawTriple(raw) == << raw.type_, raw.code, raw.value >>

(* write_raw without the trailing sync event. *)
WriteRawNoSync(out, raw, failAt) ==
    LET events == << RawTriple(raw) >>
        upto   == IF failAt = 0 THEN Len(events) ELSE failAt - 1
    IN  [emitted |-> out \o SubSeq(events, 1, upto),
         ok      |-> failAt = 0]

(* write_raw going on to the next event after a write failed. *)
WriteRawKeepsGoing(out, raw, failAt) ==
    LET events == << RawTriple(raw), SynEvent >>
    IN  [emitted |-> out \o SelectSeq(events, LAMBDA ev : failAt = 0 \/ ev # events[failAt]),
         ok      |-> failAt = 0]

WriteRaw(out, raw, failAt) ==
    LET events == << RawTriple(raw), SynEvent >>
        upto   == IF failAt = 0 THEN Len(events) ELSE failAt - 1
    IN  [emitted |-> out \o SubSeq(events, 1, upto),
         ok      |-> failAt = 0]

DeviceWrite(out, event, failAt) == WriteRaw(out, ToRaw(event), failAt)

(***************************************************************************)
(* EventWriter::write (event_writer.rs:191-212): the device an event is    *)
(* written to, and the write itself.  devs maps "Mouse" and "Keyboard" to  *)
(* the emitted sequence of the device.                                     *)
(***************************************************************************)
DevTypes == {"Mouse", "Keyboard"}

(* write sending every Button to the mouse. *)
DevTypeOfAnyButton(event) ==
    CASE event.tag = "MouseScroll" -> "Mouse"
      [] event.tag = "MouseMove"   -> "Mouse"
      [] event.tag = "Key" ->
            IF event.kind.tag = "Button" THEN "Mouse" ELSE "Keyboard"

DevTypeOf(event) ==
    CASE event.tag = "MouseScroll" -> "Mouse"
      [] event.tag = "MouseMove"   -> "Mouse"
      [] event.tag = "Key" ->
            IF event.kind \in {KindButton("Left"), KindButton("Right"),
                               KindButton("Middle")}
            THEN "Mouse"
            ELSE "Keyboard"

EventWriterWrite(devs, event, failAt) ==
    LET dev == DevTypeOf(event)
        w   == DeviceWrite(devs[dev], event, failAt)
    IN  [devs |-> [devs EXCEPT ![dev] = w.emitted], ok |-> w.ok]

(***************************************************************************)
(* The capability tables (event_writer.rs:140-144, 162-165): per event     *)
(* type, the inclusive ranges of codes the device enables.                 *)
(***************************************************************************)
SYN_MAX     == 15
REL_MAX     == 15
BTN_LEFT    == 272
BTN_GEAR_UP == 337
KEY_MICMUTE == 248

MOUSE_EVENT_TYPES ==
    << << EV_SYN, << << SYN_REPORT, SYN_MAX >> >> >>,
       << EV_REL, << << 0, REL_MAX >> >> >>,
       << EV_KEY, << << BTN_LEFT, BTN_GEAR_UP >> >> >> >>

KEYBOARD_EVENT_TYPES ==
    << << EV_SYN, << << SYN_REPORT, SYN_MAX >> >> >>,
       << EV_KEY, << << 0, KEY_MICMUTE >> >> >> >>

EventTypesOf(dev_type) ==
    IF dev_type = "Mouse" THEN MOUSE_EVENT_TYPES ELSE KEYBOARD_EVENT_TYPES

(* The (type, code) is one setup_evdev enables for a table. *)
Declares(event_types, type, code) ==
    \E i \in 1 .. Len(event_types) :
        /\ event_types[i][1] = type
        /\ \E j \in 1 .. Len(event_types[i][2]) :
              /\ event_types[i][2][j][1] <= code
              /\ code <= event_types[i][2][j][2]

(***************************************************************************)
(* setup_evdev (event_writer.rs:97-123): the enabling calls it makes, in   *)
(* order: for each entry of the table the event type, then every code of   *)
(* its ranges.  The calls that set the name and the ids return nothing.    *)
(***************************************************************************)
RangeCodes(range) == [i \in 1 .. range[2] - range[1] + 1 |-> range[1] + i - 1]

RECURSIVE FlattenRanges(_)
FlattenRanges(ranges) ==
    IF ranges = << >> THEN << >>
    ELSE RangeCodes(Head(ranges)) \o FlattenRanges(Tail(ranges))

EnableCode(type, codes) ==
    [i \in 1 .. Len(codes) |-> << "libevdev_enable_event_code", type, codes[i] >>]

RECURSIVE EnableCalls(_)
EnableCalls(event_types) ==
    IF event_types = << >> THEN << >>
    ELSE << << "libevdev_enable_event_type", Head(event_types)[1], 0 >> >>
         \o EnableCode(Head(event_types)[1], FlattenRanges(Head(event_types)[2]))
         \o EnableCalls(Tail(event_types))

IoOk           == [kind |-> "none", got |-> 0, expecting |-> 0]
IoOther(msg)   == [kind |-> msg, got |-> 0, expecting |-> 0]
OsError(errno) == [kind |-> "os error", got |-> errno, expecting |-> 0]

(* failAt is the index of the first enabling call that returns ret < 0
   (0: none does). *)
SetupEvdev(event_types, failAt, ret) ==
    IF failAt \in 1 .. Len(EnableCalls(event_types))
    THEN [ok |-> FALSE, err |-> OsError(-ret)]
    ELSE [ok |-> TRUE, err |-> IoOk]

(***************************************************************************)
(* Device::new_sync (event_writer.rs:26-56) and Drop (125-132).  `calls`   *)
(* is the record of the native calls that created or released a resource   *)
(* of one device.  A fault names the native call that fails: libevdev_new  *)
(* returning null, the step-th enabling call, the creation of the uinput   *)
(* handle; ret is the negative value the failing call returns.             *)
(***************************************************************************)
NoFault         == [at |-> "none", step |-> 0]
FaultNew        == [at |-> "libevdev_new", step |-> 0]
FaultSetup(k)   == [at |-> "setup_evdev", step |-> k]
FaultUinput     == [at |-> "libevdev_uinput_create_from_device", step |-> 0]

Faults(event_types) ==
    {NoFault, FaultNew, FaultUinput}
    \cup {FaultSetup(k) : k \in 1 .. Len(EnableCalls(event_types))}

(* new_sync returning the error of libevdev_uinput_create_from_device
   without freeing the descriptor. *)
NewSyncLeaky(event_types, fault, ret) ==
    LET setup == SetupEvdev(event_types, fault.step, ret)
    IN  IF fault.at = "libevdev_new"
        THEN [ok |-> FALSE, calls |-> << >>,
              err |-> IoOther("Failed to create device")]
        ELSE IF fault.at = "setup_evdev" /\ ~setup.ok
        THEN [ok |-> FALSE, calls |-> << "libevdev_new", "libevdev_free" >>,
              err |-> setup.err]
        ELSE IF fault.at = "libevdev_uinput_create_from_device"
        THEN [ok |-> FALSE, calls |-> << "libevdev_new" >>,
              err |-> OsError(-ret)]
        ELSE [ok |-> TRUE,
              calls |-> << "libevdev_new", "libevdev_uinput_create_from_device" >>,
              err |-> IoOk]

NewSync(event_types, fault, ret) ==
    LET setup == SetupEvdev(event_types, fault.step, ret)
    IN  IF fault.at = "libevdev_new"
        THEN [ok |-> FALSE, calls |-> << >>,
              err |-> IoOther("Failed to create device")]
        ELSE IF fault.at = "setup_evdev" /\ ~setup.ok
        THEN [ok |-> FALSE, calls |-> << "libevdev_new", "libevdev_free" >>,
              err |-> setup.err]
        ELSE IF fault.at = "libevdev_uinput_create_from_device"
        THEN [ok |-> FALSE, calls |-> << "libevdev_new", "libevdev_free" >>,
              err |-> OsError(-ret)]
        ELSE [ok |-> TRUE,
              calls |-> << "libevdev_new", "libevdev_uinput_create_from_device" >>,
              err |-> IoOk]

(* drop freeing the descriptor before it destroys the handle made from it. *)
DeviceDropFreeFirst(calls) ==
    calls \o << "libevdev_free", "libevdev_uinput_destroy" >>

DeviceDrop(calls) ==
    calls \o << "libevdev_uinput_destroy", "libevdev_free" >>

(* dropping an EventWriter without dropping its mouse. *)
DropWriterForgetsMouse(nat, d) ==
    [t \in DevTypes |->
        IF d[t] = "live" /\ t # "Mouse" THEN DeviceDrop(nat[t]) ELSE nat[t]]

(* The devices that are alive are dropped (the fields of EventWriter, or the
   mouse alone when the keyboard was not constructed). *)
DropWriter(nat, d) ==
    [t \in DevTypes |-> IF d[t] = "live" THEN DeviceDrop(nat[t]) ELSE nat[t]]

(***************************************************************************)
(* The client (main.rs).                                                   *)
(***************************************************************************)
VARIABLES
    config,     \* the names of the configured servers (Config's keys)
    plan,       \* the environment: how and when each attempt would end
    att,        \* each try_connect future: absent, pending, done, dropped
    clock,      \* time elapsed in the current wait (the race, a read)
    res,        \* the Result select_all returned
    winner,     \* (name, server, certificate, stream) bound at main.rs:35
    pc,         \* where run() is
    err,        \* the Error run() returned
    sent,       \* what the client has written to the TLS stream
    peerVersion, \* Some(version read from the peer, main.rs:67)
    devState,   \* each virtual device: none, live, destroyed
    emitted,    \* the raw events each device has accepted
    peer,       \* active, or silent for good
    nwrites,    \* Event messages received so far
    lastMsg,    \* the Message the last read returned
    sig,        \* ctrl_c(): waiting, fired, failed
    exitCode,   \* the process's exit code, NoExit while it runs
    native,     \* per device, the native calls that made or released it
    blocking,   \* the device whose spawn_blocking task outlives run()
    idle,       \* ticks since the peer last delivered a message
    races,      \* calls of select_all
    handshakes, \* calls of connector.connect
    tls         \* the root certificate, hostname and stream of the handshake

VARIABLES
    xEvent,     \* an Event handed to to_raw
    xRaw,       \* Some(to_raw(xEvent)) once computed
    xBack,      \* Some(from_raw(xRaw)) once computed
    rawIn,      \* an arbitrary input_event handed to from_raw
    rawOut      \* Some(from_raw(rawIn)) once computed

VARIABLES
    data,       \* the string handed to visit_str
    parsed      \* Some(visit_str(data)) once computed

VARIABLES
    nsDevType,  \* the device type handed to Device::new_sync
    nsFault,    \* the native call that fails during it
    nsRet,      \* what the failing call returns
    nsResult    \* Some(new_sync's result) once computed

clientVars == << config, plan, att, clock, res, winner, pc, err, sent,
                 peerVersion, devState,
                 emitted, peer, nwrites, lastMsg, sig, exitCode,
                 native, blocking, idle, races, handshakes, tls >>
xlateVars  == << xEvent, xRaw, xBack, rawIn, rawOut >>
parseVars  == << data, parsed >>
deviceVars == << nsDevType, nsFault, nsRet, nsResult >>
vars       == << clientVars, xlateVars, parseVars, deviceVars >>

Servers  == 1 .. NumServers
Outcomes == {"ok", "read_cert", "parse_cert", "connect"}
NoExit   == -1

VoidPlan == [outcome |-> "void", delay |-> 0]
Plans    == {[outcome |-> o, delay |-> d] : o \in Outcomes, d \in 0 .. MaxDelay}

NoRes      == [ok |-> FALSE, name |-> 0, server |-> 0, certificate |-> 0,
               stream |-> 0, err |-> "none"]
ResOk(n)   == [ok |-> TRUE, name |-> n, server |-> n, certificate |-> n,
               stream |-> n, err |-> "none"]
ResErr(e)  == [ok |-> FALSE, name |-> 0, server |-> 0, certificate |-> 0,
               stream |-> 0, err |-> e]

NoErr       == [kind |-> "none", got |-> 0, expecting |-> 0]
Error(kind) == [kind |-> kind, got |-> 0, expecting |-> 0]
IncompatibleVersion(version) ==
    [kind |-> "Incompatible protocol version", got |-> version,
     expecting |-> PROTOCOL_VERSION]

NoTls == [root |-> 0, hostname |-> 0, stream |-> 0]

NoMsg         == [tag |-> "none", event |-> None, ok |-> TRUE]
MsgKeepAlive  == [tag |-> "KeepAlive", event |-> None, ok |-> TRUE]
MsgEvent(e, ok) == [tag |-> "Event", event |-> Some(e), ok |-> ok]

(***************************************************************************)
(* try_connect (main.rs:18-32): the result of one attempt, given how the   *)
(* environment lets it end.  The tuple it returns is built from the one    *)
(* server entry it was given.                                              *)
(***************************************************************************)
(* every attempt returning the certificate of the first entry. *)
TryConnectFirstCertificate(name, outcome) ==
    CASE outcome = "read_cert"  -> ResErr("Failed to read certificate")
      [] outcome = "parse_cert" -> ResErr("Failed to parse certificate")
      [] outcome = "connect"    -> ResErr("connect")
      [] OTHER                  -> [ResOk(name) EXCEPT !.certificate = 1]

TryConnect(name, outcome) ==
    CASE outcome = "read_cert"  -> ResErr("Failed to read certificate")
      [] outcome = "parse_cert" -> ResErr("Failed to parse certificate")
      [] outcome = "connect"    -> ResErr("connect")
      [] OTHER                  -> ResOk(name)

(***************************************************************************)
(* select_all (main.rs:36-38): the futures whose poll returns Ready now.   *)
(* They are polled in the order HashMap::drain yields them, which is       *)
(* arbitrary: any of the ready ones may be the one returned.               *)
(***************************************************************************)
(* join_all in place of select_all: nothing is returned before every
   attempt has completed. *)
SelectAllReadyJoined ==
    IF \A s \in Servers : att[s] = "pending" => plan[s].delay <= clock
    THEN {s \in Servers : att[s] = "pending"}
    ELSE {}

SelectAllReady ==
    {s \in Servers : att[s] = "pending" /\ plan[s].delay <= clock}

NoAttempts == [s \in Servers |-> "absent"]
NoPlan     == [s \in Servers |-> VoidPlan]

DropDevices(d) == [t \in DevTypes |-> IF d[t] = "live" THEN "destroyed" ELSE d[t]]

AwaitPoints == {"racing", "tls", "write_version", "read_version",
                "mouse_new", "keyboard_new", "streaming"}

(* The Events the peer sends: every motion and scroll with delta 1, and the
   presses and releases of a key, of the three buttons the routing names and
   of one other button. *)
WireKinds == {KindKey("A"), KindButton("Left"), KindButton("Right"),
              KindButton("Middle"), KindButton("Side")}
WireEvents ==
    {e \in Events : IF e.tag = "Key" THEN e.kind \in WireKinds ELSE e.delta = 1}

ClientIdle ==
    /\ att = NoAttempts
    /\ clock = 0
    /\ res = NoRes
    /\ winner = NoRes
    /\ pc = "init"
    /\ err = NoErr
    /\ sent = << >>
    /\ peerVersion = None
    /\ devState = [t \in DevTypes |-> "none"]
    /\ emitted = [t \in DevTypes |-> << >>]
    /\ peer = "active"
    /\ nwrites = 0
    /\ lastMsg = NoMsg
    /\ sig = "waiting"
    /\ exitCode = NoExit
    /\ native = [t \in DevTypes |-> << >>]
    /\ blocking = "none"
    /\ idle = 0
    /\ races = 0
    /\ handshakes = 0
    /\ tls = NoTls

ClientInit ==
    /\ plan \in [Servers -> Plans \cup {VoidPlan}]
    /\ config = {s \in Servers : plan[s] # VoidPlan}
    /\ ClientIdle

XlateIdle ==
    /\ xEvent = MouseMove("X", 0)
    /\ xRaw = None
    /\ xBack = None
    /\ rawIn = input_event(0, 0, 0)
    /\ rawOut = None

ParseIdle ==
    /\ data = << >>
    /\ parsed = None

DeviceIdle ==
    /\ nsDevType = "Mouse"
    /\ nsFault = NoFault
    /\ nsRet = -1
    /\ nsResult = None

ClientOnly == UNCHANGED << xlateVars, parseVars, deviceVars >>

(* run() moves on to its next await. *)
RunGoes(to) ==
    /\ pc' = to
    /\ clock' = 0
    /\ idle' = 0
    /\ UNCHANGED << err, devState, native >>

(* run() returns Err(e): its locals are dropped on the way out.  nat is the
   record of native calls at the time of the return. *)
RunFailsWith(e, nat) ==
    /\ pc' = "closed"
    /\ clock' = 0
    /\ idle' = 0
    /\ err' = e
    /\ devState' = DropDevices(devState)
    /\ native' = DropWriter(nat, devState)

RunFails(e) == RunFailsWith(e, native)

(* main.rs:36: the first poll of run() drains the configuration into one
   try_connect future per entry and hands them to select_all, which panics
   on an empty iterator. *)
RunStart ==
    /\ pc = "init"
    /\ exitCode = NoExit
    /\ config' = {}
    /\ IF config = {}
       THEN /\ pc' = "panicked"
            /\ exitCode' = 101
            /\ att' = att
       ELSE /\ pc' = "racing"
            /\ exitCode' = exitCode
            /\ att' = [s \in Servers |-> IF s \in config THEN "pending" ELSE "absent"]
    /\ UNCHANGED << plan, clock, res, winner, err, sent, peerVersion, devState, emitted,
                    peer, nwrites, lastMsg, sig >>
    /\ races' = races + 1
    /\ UNCHANGED << native, blocking, idle, handshakes, tls >>
    /\ ClientOnly

(* Time passes while no attempt is ready. *)
RaceTick ==
    /\ pc = "racing"
    /\ SelectAllReady = {}
    /\ clock < MaxDelay
    /\ clock' = clock + 1
    /\ UNCHANGED << config, plan, att, res, winner, pc, err, sent, peerVersion, devState,
                    emitted, peer, nwrites, lastMsg, sig, exitCode >>
    /\ UNCHANGED << native, blocking, idle, races, handshakes, tls >>
    /\ ClientOnly

(* main.rs:36-38: select_all returns the first future that completes, with
   the futures that have not. *)
SelectAllReturn ==
    /\ pc = "racing"
    /\ \E s \in SelectAllReady :
          /\ res' = TryConnect(s, plan[s].outcome)
          /\ att' = [att EXCEPT ![s] = "done"]
    /\ pc' = "raced"
    /\ UNCHANGED << config, plan, clock, winner, err, sent, peerVersion, devState, emitted,
                    peer, nwrites, lastMsg, sig, exitCode >>
    /\ UNCHANGED << native, blocking, idle, races, handshakes, tls >>
    /\ ClientOnly

(* the race is run again over the attempts that are left. *)
RunRaceErrRetries ==
    /\ pc = "raced"
    /\ ~res.ok
    /\ IF \E s \in Servers : att[s] = "pending"
       THEN /\ pc' = "racing"
            /\ races' = races + 1
            /\ res' = NoRes
            /\ UNCHANGED << att, plan, clock, idle, err, devState, native >>
       ELSE /\ RunFails(Error(res.err))
            /\ res' = NoRes
            /\ att' = NoAttempts
            /\ plan' = NoPlan
            /\ races' = races
    /\ UNCHANGED << config, winner, sent, peerVersion, emitted, peer, nwrites, lastMsg,
                    sig, exitCode >>
    /\ UNCHANGED << blocking, handshakes, tls >>
    /\ ClientOnly

(* main.rs:39-40: res? on an Err; the remaining futures are dropped. *)
RunRaceErr ==
    /\ pc = "raced"
    /\ ~res.ok
    /\ RunFails(Error(res.err))
    /\ res' = NoRes
    /\ att' = NoAttempts
    /\ plan' = NoPlan
    /\ UNCHANGED << config, winner, sent, peerVersion, emitted, peer, nwrites, lastMsg,
                    sig, exitCode >>
    /\ UNCHANGED << blocking, races, handshakes, tls >>
    /\ ClientOnly

(* main.rs:39-61: res? on an Ok binds the winner, the remaining futures are
   dropped, the connector is built and the TLS handshake started. *)
RunRaceOk ==
    /\ pc = "raced"
    /\ res.ok
    /\ winner' = res
    /\ res' = NoRes
    /\ att' = NoAttempts
    /\ plan' = NoPlan
    /\ \/ RunGoes("tls")
       \/ RunFails(Error("Failed to create connector"))
    /\ UNCHANGED << config, sent, peerVersion, emitted, peer, nwrites, lastMsg, sig,
                    exitCode >>
    /\ tls' = [tls EXCEPT !.root = res.certificate]
    /\ UNCHANGED << blocking, races, handshakes >>
    /\ ClientOnly

(* main.rs:58-61 *)
TlsConnect ==
    /\ pc = "tls"
    /\ \/ RunGoes("write_version")
       \/ RunFails(Error("Failed to connect"))
    /\ UNCHANGED << config, plan, att, res, winner, sent, peerVersion, emitted, peer,
                    nwrites, lastMsg, sig, exitCode >>
    /\ tls' = [tls EXCEPT !.hostname = winner.server, !.stream = winner.stream]
    /\ handshakes' = handshakes + 1
    /\ UNCHANGED << blocking, races >>
    /\ ClientOnly

(* the version written a second time. *)
WriteVersionTwice ==
    /\ pc = "write_version"
    /\ RunGoes("read_version")
    /\ sent' = sent \o << PROTOCOL_VERSION, PROTOCOL_VERSION >>
    /\ UNCHANGED << config, plan, att, res, winner, peerVersion, emitted, peer, nwrites,
                    lastMsg, sig, exitCode >>
    /\ UNCHANGED << blocking, races, handshakes, tls >>
    /\ ClientOnly

(* main.rs:65 *)
WriteVersion ==
    /\ pc = "write_version"
    /\ \/ /\ RunGoes("read_version")
          /\ sent' = Append(sent, PROTOCOL_VERSION)
       \/ /\ RunFails(Error("write_version"))
          /\ sent' = sent
    /\ UNCHANGED << config, plan, att, res, winner, peerVersion, emitted, peer, nwrites,
                    lastMsg, sig, exitCode >>
    /\ UNCHANGED << blocking, races, handshakes, tls >>
    /\ ClientOnly

(* main.rs:67-74 *)
(* a peer that is newer is accepted as well. *)
VersionAcceptedAtLeast(version) == version >= PROTOCOL_VERSION

VersionAccepted(version) == version = PROTOCOL_VERSION

ReadVersion ==
    /\ pc = "read_version"
    /\ \/ \E version \in 0 .. MaxVersion :
             /\ peerVersion' = Some(version)
             /\ IF VersionAccepted(version)
                THEN RunGoes("mouse_new")
                ELSE RunFails(IncompatibleVersion(version))
       \/ /\ RunFails(Error("read_version"))
          /\ peerVersion' = peerVersion
    /\ UNCHANGED << config, plan, att, res, winner, sent, emitted, peer,
                    nwrites, lastMsg, sig, exitCode >>
    /\ UNCHANGED << blocking, races, handshakes, tls >>
    /\ ClientOnly

(* Device::new (event_writer.rs:22-24) run to its end for a device type:
   the blocking task runs new_sync and run() takes its result. *)
DeviceNew(dev_type, to) ==
    \E fault \in Faults(EventTypesOf(dev_type)), ret \in -MaxErrno .. -1 :
        LET r   == NewSync(EventTypesOf(dev_type), fault, ret)
            nat == [native EXCEPT ![dev_type] = @ \o r.calls]
        IN  IF r.ok
            THEN /\ pc' = to
                 /\ clock' = 0
                 /\ idle' = 0
                 /\ devState' = [devState EXCEPT ![dev_type] = "live"]
                 /\ native' = nat
                 /\ err' = err
            ELSE RunFailsWith(r.err, nat)

(* main.rs:76, event_writer.rs:186 *)
MouseNew ==
    /\ pc = "mouse_new"
    /\ DeviceNew("Mouse", "keyboard_new")
    /\ UNCHANGED << config, plan, att, res, winner, sent, peerVersion, emitted, peer,
                    nwrites, lastMsg, sig, exitCode >>
    /\ UNCHANGED << blocking, races, handshakes, tls >>
    /\ ClientOnly

(* main.rs:76, event_writer.rs:187-188 *)
KeyboardNew ==
    /\ pc = "keyboard_new"
    /\ DeviceNew("Keyboard", "streaming")
    /\ UNCHANGED << config, plan, att, res, winner, sent, peerVersion, emitted, peer,
                    nwrites, lastMsg, sig, exitCode >>
    /\ UNCHANGED << blocking, races, handshakes, tls >>
    /\ ClientOnly

(***************************************************************************)
(* The streaming loop (main.rs:77-85).  Each iteration builds a fresh      *)
(* time::timeout(MESSAGE_TIMEOUT, read_message), so the clock restarts at  *)
(* 0 with every message read.  The write of an event completes within the  *)
(* poll that read it: Device::write never suspends.                        *)
(***************************************************************************)
TimedOut(t) == t >= MESSAGE_TIMEOUT

RecvEvent ==
    /\ pc = "streaming"
    /\ peer = "active"
    /\ nwrites < MaxWrites
    /\ \E e \in WireEvents, failAt \in 0 .. 2 :
          LET w == EventWriterWrite(emitted, e, failAt)
          IN  /\ emitted' = w.devs
              /\ lastMsg' = MsgEvent(e, w.ok)
              /\ IF w.ok
                 THEN RunGoes("streaming")
                 ELSE RunFails(Error("device write"))
    /\ nwrites' = nwrites + 1
    /\ UNCHANGED << config, plan, att, res, winner, sent, peerVersion, peer, sig, exitCode >>
    /\ UNCHANGED << blocking, races, handshakes, tls >>
    /\ ClientOnly

(* one timeout made before the loop, which a message does not restart. *)
RecvKeepAliveStaleTimeout ==
    /\ pc = "streaming"
    /\ peer = "active"
    /\ lastMsg' = MsgKeepAlive
    /\ idle' = 0
    /\ UNCHANGED << config, plan, att, clock, res, winner, pc, err, sent, peerVersion,
                    devState, emitted, peer, nwrites, sig, exitCode >>
    /\ UNCHANGED << native, blocking, races, handshakes, tls >>
    /\ ClientOnly

(* main.rs:83 *)
RecvKeepAlive ==
    /\ pc = "streaming"
    /\ peer = "active"
    /\ lastMsg' = MsgKeepAlive
    /\ RunGoes("streaming")
    /\ UNCHANGED << config, plan, att, res, winner, sent, peerVersion, emitted, peer,
                    nwrites, sig, exitCode >>
    /\ UNCHANGED << blocking, races, handshakes, tls >>
    /\ ClientOnly

(* read_message returns Err: a malformed message, or the stream ended. *)
RecvError ==
    /\ pc = "streaming"
    /\ peer = "active"
    /\ RunFails(Error("read_message"))
    /\ UNCHANGED << config, plan, att, res, winner, sent, peerVersion, emitted, peer,
                    nwrites, lastMsg, sig, exitCode >>
    /\ UNCHANGED << blocking, races, handshakes, tls >>
    /\ ClientOnly

Tick ==
    /\ pc = "streaming"
    /\ ~TimedOut(clock)
    /\ clock' = clock + 1
    /\ UNCHANGED << config, plan, att, res, winner, pc, err, sent, peerVersion, devState,
                    emitted, peer, nwrites, lastMsg, sig, exitCode >>
    /\ idle' = idle + 1
    /\ UNCHANGED << native, blocking, races, handshakes, tls >>
    /\ ClientOnly

(* the timeout is swallowed and the loop reads again. *)
ReadTimeoutIgnored ==
    /\ pc = "streaming"
    /\ TimedOut(clock)
    /\ RunGoes("streaming")
    /\ UNCHANGED << config, plan, att, res, winner, sent, peerVersion, emitted,
                    peer, nwrites, lastMsg, sig, exitCode >>
    /\ UNCHANGED << blocking, races, handshakes, tls >>
    /\ ClientOnly

(* main.rs:78-80: the timeout elapsed with the read still pending. *)
ReadTimeout ==
    /\ pc = "streaming"
    /\ TimedOut(clock)
    /\ RunFails(Error("Read timed out"))
    /\ UNCHANGED << config, plan, att, res, winner, sent, peerVersion, emitted, peer,
                    nwrites, lastMsg, sig, exitCode >>
    /\ UNCHANGED << blocking, races, handshakes, tls >>
    /\ ClientOnly

(* The environment: the peer stops sending for good. *)
PeerSilent ==
    /\ pc = "streaming"
    /\ peer = "active"
    /\ peer' = "silent"
    /\ UNCHANGED << config, plan, att, clock, res, winner, pc, err, sent, peerVersion,
                    devState, emitted, nwrites, lastMsg, sig, exitCode >>
    /\ UNCHANGED << native, blocking, idle, races, handshakes, tls >>
    /\ ClientOnly

(***************************************************************************)
(* main's select! (main.rs:126-141).  The futures of both branches are     *)
(* dropped before the handler of the branch that completed runs.           *)
(***************************************************************************)
RunDropped ==
    /\ pc' = "cancelled"
    /\ clock' = 0
    /\ idle' = 0
    /\ res' = NoRes
    /\ att' = NoAttempts
    /\ plan' = NoPlan
    /\ devState' = DropDevices(devState)
    /\ native' = DropWriter(native, devState)
    /\ blocking' = CASE pc = "mouse_new"    -> "Mouse"
                      [] pc = "keyboard_new" -> "Keyboard"
                      [] OTHER               -> "none"

(* the error is logged and main returns. *)
MainRunErrReturns ==
    /\ pc = "closed"
    /\ exitCode = NoExit
    /\ exitCode' = 0
    /\ UNCHANGED << config, plan, att, clock, res, winner, pc, err, sent,
                    peerVersion, devState, emitted, peer, nwrites, lastMsg, sig >>
    /\ UNCHANGED << native, blocking, idle, races, handshakes, tls >>
    /\ ClientOnly

(* main.rs:127-131: run() returned Err, process::exit(1). *)
MainRunErr ==
    /\ pc = "closed"
    /\ exitCode = NoExit
    /\ exitCode' = 1
    /\ UNCHANGED << config, plan, att, clock, res, winner, pc, err, sent, peerVersion,
                    devState, emitted, peer, nwrites, lastMsg, sig >>
    /\ UNCHANGED << native, blocking, idle, races, handshakes, tls >>
    /\ ClientOnly

(* main.rs:133-140 on Ok(()): the signal arrived while run() was suspended;
   main returns and the process exits with 0. *)
CtrlC ==
    /\ pc \in AwaitPoints
    /\ sig = "waiting"
    /\ exitCode = NoExit
    /\ sig' = "fired"
    /\ RunDropped
    /\ exitCode' = 0
    /\ UNCHANGED << config, winner, err, sent, peerVersion, emitted, peer, nwrites,
                    lastMsg >>
    /\ UNCHANGED << races, handshakes, tls >>
    /\ ClientOnly

(* main.rs:133-137 on Err: the handler could not be installed, which the
   first poll of ctrl_c() reports; run() has been polled at most once. *)
CtrlCFailed ==
    /\ \/ pc = "init"
       \/ pc = "racing" /\ clock = 0
    /\ sig = "waiting"
    /\ exitCode = NoExit
    /\ sig' = "failed"
    /\ RunDropped
    /\ exitCode' = 1
    /\ UNCHANGED << config, winner, err, sent, peerVersion, emitted, peer, nwrites,
                    lastMsg >>
    /\ UNCHANGED << races, handshakes, tls >>
    /\ ClientOnly

(* event_writer.rs:23: the closure handed to spawn_blocking is not cancelled
   with run().  When the runtime shuts down it has either not started, and is
   dropped unrun, or it runs new_sync to its end and its result, with the
   Device in it, is dropped. *)
BlockingTaskEnds ==
    /\ blocking \in DevTypes
    /\ blocking' = "none"
    /\ \/ UNCHANGED << native, devState >>
       \/ \E fault \in Faults(EventTypesOf(blocking)), ret \in -MaxErrno .. -1 :
             LET r == NewSync(EventTypesOf(blocking), fault, ret)
             IN  IF r.ok
                 THEN /\ native' = [native EXCEPT ![blocking] = DeviceDrop(@ \o r.calls)]
                      /\ devState' = [devState EXCEPT ![blocking] = "destroyed"]
                 ELSE /\ native' = [native EXCEPT ![blocking] = @ \o r.calls]
                      /\ devState' = devState
    /\ UNCHANGED << config, plan, att, clock, res, winner, pc, err, sent, peerVersion,
                    emitted, peer, nwrites, lastMsg, sig, exitCode, idle, races,
                    handshakes, tls >>
    /\ ClientOnly

Init == ClientInit /\ XlateIdle /\ ParseIdle /\ DeviceIdle

Next ==
    \/ RunStart
    \/ RaceTick
    \/ SelectAllReturn
    \/ RunRaceErr
    \/ RunRaceOk
    \/ TlsConnect
    \/ WriteVersion
    \/ ReadVersion
    \/ MouseNew
    \/ KeyboardNew
    \/ RecvEvent
    \/ RecvKeepAlive
    \/ RecvError
    \/ Tick
    \/ ReadTimeout
    \/ PeerSilent
    \/ MainRunErr
    \/ CtrlC
    \/ CtrlCFailed
    \/ BlockingTaskEnds

Spec == Init /\ [][Next]_vars

(* The runtime's timer fires, and a task that can run is run. *)
FairSpec ==
    /\ Spec
    /\ WF_vars(Tick)
    /\ WF_vars(ReadTimeout)
    /\ WF_vars(MainRunErr)

(***************************************************************************)
(* The translation applied to every Event and to every input_event.        *)
(***************************************************************************)
RawInputs == {input_event(t, c, v) : t \in 0 .. MaxType, c \in 0 .. MaxCode,
                                     v \in Deltas}

XlateInit ==
    /\ \/ xEvent \in Events /\ rawIn = input_event(0, 0, 0)
       \/ xEvent = MouseMove("X", 0) /\ rawIn \in RawInputs
    /\ xRaw = None
    /\ xBack = None
    /\ rawOut = None
    /\ plan = NoPlan
    /\ config = {}
    /\ ClientIdle
    /\ ParseIdle
    /\ DeviceIdle

(* event.rs:8-44 *)
EventToRaw ==
    /\ xRaw = None
    /\ xRaw' = Some(ToRaw(xEvent))
    /\ UNCHANGED << xEvent, xBack, rawIn, rawOut, clientVars, parseVars, deviceVars >>

(* event.rs:46-77, on what to_raw returned *)
EventFromRaw ==
    /\ xRaw # None
    /\ xBack = None
    /\ xBack' = Some(FromRaw(xRaw[1]))
    /\ UNCHANGED << xEvent, xRaw, rawIn, rawOut, clientVars, parseVars, deviceVars >>

(* event.rs:46-77, on an input_event read from a device *)
RawFromRaw ==
    /\ rawOut = None
    /\ rawOut' = Some(FromRaw(rawIn))
    /\ UNCHANGED << xEvent, xRaw, xBack, rawIn, clientVars, parseVars, deviceVars >>

XlateNext ==
    \/ EventToRaw
    \/ EventFromRaw
    \/ RawFromRaw

XlateSpec == XlateInit /\ [][XlateNext]_vars

(***************************************************************************)
(* ServerAddressVisitor::visit_str (config.rs:40-61).  A string is a       *)
(* sequence of one-character strings.                                      *)
(***************************************************************************)
Alphabet == {"h", ":", "0", "9", "+"}
DigitChars == << "0", "1", "2", "3", "4", "5", "6", "7", "8", "9" >>
IsDigit(c) == \E i \in 1 .. Len(DigitChars) : DigitChars[i] = c
DigitValue(c) == (CHOOSE i \in 1 .. Len(DigitChars) : DigitChars[i] = c) - 1

Strings(n) == UNION {[1 .. k -> Alphabet] : k \in 0 .. n}

(* str::split(':'): the segments between the colons, at least one. *)
RECURSIVE SplitFrom(_, _, _)
SplitFrom(str, i, seg) ==
    IF i > Len(str) THEN << seg >>
    ELSE IF str[i] = ":" THEN << seg >> \o SplitFrom(str, i + 1, << >>)
    ELSE SplitFrom(str, i + 1, Append(seg, str[i]))

Split(str) == SplitFrom(str, 1, << >>)

(* <u16 as FromStr>::from_str: an optional '+', then one or more decimal
   digits, accumulated with a check for overflow. *)
RECURSIVE AccumulateU16(_, _, _)
AccumulateU16(digits, i, acc) ==
    IF i > Len(digits) THEN Some(acc)
    ELSE IF ~IsDigit(digits[i]) THEN None
    ELSE IF acc * 10 + DigitValue(digits[i]) > MaxU16 THEN None
    ELSE AccumulateU16(digits, i + 1, acc * 10 + DigitValue(digits[i]))

ParseU16(str) ==
    IF Len(str) = 0 THEN None
    ELSE IF str[1] = "+"
         THEN IF Len(str) = 1 THEN None
              ELSE AccumulateU16(SubSeq(str, 2, Len(str)), 1, 0)
         ELSE AccumulateU16(str, 1, 0)

ParseOk(host, port) == [ok |-> TRUE, host |-> host, port |-> port, error |-> "none"]
ParseErr(error)     == [ok |-> FALSE, host |-> << >>, port |-> 0, error |-> error]

(* visit_str without the check for a third segment. *)
VisitStrNoExtraneous(str) ==
    LET split == Split(str)
        host  == split[1]
        port  == IF Len(split) >= 2 THEN ParseU16(split[2]) ELSE None
    IN  IF port = None THEN ParseErr("Invalid server description")
        ELSE ParseOk(host, port[1])

VisitStr(str) ==
    LET split == Split(str)
        host  == split[1]
        port  == IF Len(split) >= 2 THEN ParseU16(split[2]) ELSE None
    IN  IF port = None THEN ParseErr("Invalid server description")
        ELSE IF Len(split) >= 3 THEN ParseErr("Extraneous data")
        ELSE ParseOk(host, port[1])

ParseInit ==
    /\ data \in Strings(MaxLen)
    /\ parsed = None
    /\ plan = NoPlan
    /\ config = {}
    /\ ClientIdle
    /\ XlateIdle
    /\ DeviceIdle

Deserialize ==
    /\ parsed = None
    /\ parsed' = Some(VisitStr(data))
    /\ UNCHANGED << data, clientVars, xlateVars, deviceVars >>

ParseNext ==
    \/ Deserialize

ParseSpec == ParseInit /\ [][ParseNext]_vars

(***************************************************************************)
(* Device::new_sync applied to each device type under every fault.         *)
(***************************************************************************)
DeviceInit ==
    /\ nsDevType \in DevTypes
    /\ nsFault \in Faults(EventTypesOf(nsDevType))
    /\ nsRet \in -MaxErrno .. -1
    /\ nsResult = None
    /\ plan = NoPlan
    /\ config = {}
    /\ ClientIdle
    /\ XlateIdle
    /\ ParseIdle

(* event_writer.rs:26-56 *)
NewSyncCall ==
    /\ nsResult = None
    /\ nsResult' = Some(NewSync(EventTypesOf(nsDevType), nsFault, nsRet))
    /\ UNCHANGED << nsDevType, nsFault, nsRet, clientVars, xlateVars, parseVars >>

DeviceNext ==
    \/ NewSyncCall

DeviceSpec == DeviceInit /\ [][DeviceNext]_vars

(***************************************************************************)
(* The connection race.                                                    *)
(***************************************************************************)
Candidates == {s \in Servers : att[s] # "absent"}
WouldSucceed == {s \in Candidates : plan[s].outcome = "ok"}

(* C1: for every non-empty set of candidates and every order of completion
   the racer returns the first attempt to complete successfully: a failed
   attempt does not end the race, and the racer fails only if every attempt
   fails. *)
C1_FirstSuccessWins ==
    pc = "raced" =>
        IF WouldSucceed = {}
        THEN ~res.ok
        ELSE /\ res.ok
             /\ res.name \in WouldSucceed
             /\ \A s \in WouldSucceed : plan[res.name].delay <= plan[s].delay

(* Exactly w succeeds, at once; every other candidate fails, and only after
   a delay. *)
OneImmediateSuccess(w) ==
    /\ plan[w] = [outcome |-> "ok", delay |-> 0]
    /\ \A s \in Servers \ {w} :
          \/ plan[s] = VoidPlan
          \/ plan[s].outcome \in Outcomes \ {"ok"} /\ plan[s].delay > 0

(* C2: with exactly one candidate succeeding immediately and all others
   failing only after a delay, the racer returns the successful candidate's
   connection at time 0, while every other attempt is still pending; the
   pending attempts are then dropped and the winner is the tuple of the
   successful attempt. *)
C2_NoWaitState ==
    \A w \in Servers :
        OneImmediateSuccess(w) =>
            /\ clock = 0
            /\ pc = "raced" =>
                  /\ res = ResOk(w)
                  /\ att[w] = "done"
                  /\ \A s \in Candidates \ {w} : att[s] = "pending"

C2_NoWaitStep ==
    \A w \in Servers :
        (OneImmediateSuccess(w) /\ pc = "raced" /\ pc' # "raced") =>
            /\ winner' = ResOk(w)
            /\ att' = NoAttempts

(* C2: the racer returns the one immediate success without waiting for the
   others (C2_NoWaitState), and their attempts are dropped with their
   results unused (C2_NoWaitStep). *)
C2_ImmediateSuccessNoWait == [](C2_NoWaitState) /\ [][C2_NoWaitStep]_vars

C2_Witness ==
    /\ pc = "raced"
    /\ Cardinality(Candidates) >= 3
    /\ \E w \in Servers : OneImmediateSuccess(w) /\ res = ResOk(w)

(* C3: a version read from the peer that differs from PROTOCOL_VERSION makes
   run fail with the mismatch error carrying both values; no device is
   constructed, no message is read and no event is written in that run. *)
C3_VersionMismatchFatal ==
    (peerVersion # None /\ peerVersion[1] # PROTOCOL_VERSION) =>
        /\ pc = "closed"
        /\ err.kind = "Incompatible protocol version"
        /\ err.got = peerVersion[1]
        /\ err.expecting = PROTOCOL_VERSION
        /\ \A t \in DevTypes : devState[t] = "none" /\ emitted[t] = << >>
        /\ lastMsg = NoMsg
        /\ nwrites = 0

C3_Witness ==
    /\ peerVersion = Some(PROTOCOL_VERSION + 1)
    /\ pc = "closed"
    /\ exitCode = 1

(***************************************************************************)
(* The streaming loop and main's select!.                                  *)
(***************************************************************************)
TimeoutError == Error("Read timed out")

(* C4: in Streaming, once the peer sends no more data, the loop reaches
   Closed with the timeout error: it never waits forever.  This is a
   statement about run() as long as main keeps polling it, that is, in the
   behaviours where the shutdown signal does not cancel the loop. *)
C4_SilentPeerTimesOut ==
    [](pc # "cancelled") =>
        ((pc = "streaming" /\ peer = "silent") ~> (pc = "closed" /\ err = TimeoutError))

C4_Witness ==
    /\ pc = "closed"
    /\ err = TimeoutError
    /\ peer = "silent"
    /\ nwrites > 0

(* C5: whichever of run() and the shutdown signal completes first decides
   the exit: after the signal the client's work is dropped and the exit code
   is 0; after an error of run() the signal is no longer waited for and the
   exit code is 1; an exit code, once set, stays. *)
C5_ExitState ==
    /\ sig = "fired" =>
          /\ exitCode = 0
          /\ pc = "cancelled"
          /\ att = NoAttempts
          /\ \A t \in DevTypes : devState[t] # "live"
    /\ pc = "closed" =>
          /\ sig = "waiting"
          /\ err # NoErr
          /\ exitCode \in {NoExit, 1}
    /\ exitCode = 0 => sig = "fired"

C5_ExitStep ==
    /\ exitCode # NoExit => exitCode' = exitCode
    /\ (pc = "closed" /\ exitCode = NoExit) => exitCode' \in {NoExit, 1}

(* C5: the first of run() and the shutdown signal to complete decides the
   exit code, 0 after the signal and 1 after an error, for good. *)
C5_FirstToCompleteWins == [](C5_ExitState) /\ [][C5_ExitStep]_vars

(* the signal arrived while the loop was streaming *)
C5_Witness ==
    /\ sig = "fired"
    /\ exitCode = 0
    /\ nwrites > 0
    /\ devState = [t \in DevTypes |-> "destroyed"]

(***************************************************************************)
(* The event writer.                                                       *)
(***************************************************************************)
Wrote == nwrites' = nwrites + 1
WrittenEvent == lastMsg'.event[1]

(* C6: every successful write of one Event appends exactly two raw events
   to one device: the translated event, then the sync event (EV_SYN,
   SYN_REPORT, 0), with nothing in between. *)
C6_EventThenSync ==
    [][(Wrote /\ lastMsg'.ok) =>
          \E t \in DevTypes :
              /\ emitted'[t] = emitted[t] \o << RawTriple(ToRaw(WrittenEvent)),
                                                << EV_SYN, SYN_REPORT, 0 >> >>
              /\ \A u \in DevTypes \ {t} : emitted'[u] = emitted[u]]_vars

C6_Witness ==
    /\ lastMsg.tag = "Event"
    /\ lastMsg.ok
    /\ nwrites = 2
    /\ Len(emitted["Mouse"]) = 2
    /\ Len(emitted["Keyboard"]) = 2
    /\ emitted["Keyboard"][2] = << EV_SYN, SYN_REPORT, 0 >>

(* The routing rule as the specification states it. *)
RoutedTo(e) ==
    IF e.tag \in {"MouseMove", "MouseScroll"} THEN "Mouse"
    ELSE IF e.kind.tag = "Button" /\ e.kind.id \in {"Left", "Right", "Middle"}
         THEN "Mouse"
         ELSE "Keyboard"

OtherDevice(t) == IF t = "Mouse" THEN "Keyboard" ELSE "Mouse"

(* C7: MouseMove and MouseScroll are written to the mouse; a Key event is
   written to the mouse iff its kind is Button Left, Right or Middle, and to
   the keyboard otherwise; the other device receives nothing. *)
C7_Routing ==
    [][Wrote =>
          LET t == RoutedTo(WrittenEvent)
          IN  /\ emitted'[OtherDevice(t)] = emitted[OtherDevice(t)]
              /\ lastMsg'.ok =>
                    /\ Len(emitted'[t]) = Len(emitted[t]) + 2
                    /\ emitted'[t][Len(emitted[t]) + 1] = RawTriple(ToRaw(WrittenEvent))]_vars

C7_Witness ==
    /\ lastMsg = MsgEvent(Key("Down", KindButton("Side")), TRUE)
    /\ emitted["Keyboard"] = << << EV_KEY, 275, 1 >>, << EV_SYN, SYN_REPORT, 0 >> >>
    /\ emitted["Mouse"] = << << EV_KEY, 272, 1 >>, << EV_SYN, SYN_REPORT, 0 >> >>

(***************************************************************************)
(* The translation.                                                        *)
(***************************************************************************)
(* C8: from_raw(to_raw(e)) = e for every Event e; Down is carried as the raw
   value 1, Up as 0, and a delta unchanged as the raw value. *)
C8_RoundTrip ==
    /\ xRaw # None =>
          xRaw[1].value = CASE xEvent.tag = "Key" /\ xEvent.direction = "Down" -> 1
                            [] xEvent.tag = "Key" /\ xEvent.direction = "Up" -> 0
                            [] OTHER -> xEvent.delta
    /\ xBack # None => xBack[1] = Some(xEvent)

C8_Witness ==
    /\ xEvent = Key("Down", KindButton("Left"))
    /\ xRaw = Some(input_event(EV_KEY, 272, 1))
    /\ xBack = Some(Some(xEvent))

RelCodes == {REL_X, REL_Y, REL_WHEEL, REL_WHEEL_HI_RES, REL_HWHEEL_HI_RES}
KnownCodes == {KeyTable[k] : k \in Keys} \cup {ButtonTable[b] : b \in Buttons}

(* C9: from_raw returns no value for every input_event that is not to_raw of
   some Event: a type other than EV_REL and EV_KEY, an EV_REL code outside
   the five translated ones, an EV_KEY value other than 0 and 1, an EV_KEY
   code that is neither a known Key nor a known Button. *)
C9_RejectsUntranslated ==
    rawOut # None =>
        /\ (~\E e \in Events : ToRaw(e) = rawIn) => rawOut[1] = None
        /\ rawIn.type_ \notin {EV_REL, EV_KEY} => rawOut[1] = None
        /\ (rawIn.type_ = EV_REL /\ rawIn.code \notin RelCodes) => rawOut[1] = None
        /\ (rawIn.type_ = EV_KEY /\ rawIn.value \notin {0, 1}) => rawOut[1] = None
        /\ (rawIn.type_ = EV_KEY /\ rawIn.code \notin KnownCodes) => rawOut[1] = None

(* the autorepeat of KEY_A *)
C9_Witness ==
    /\ rawIn = input_event(EV_KEY, 30, 2)
    /\ rawOut = Some(None)

(***************************************************************************)
(* The server address.                                                     *)
(***************************************************************************)
Colons(str) == {i \in 1 .. Len(str) : str[i] = ":"}
HostSegment(str) == SubSeq(str, 1, (CHOOSE i \in Colons(str) : TRUE) - 1)
PortSegment(str) == SubSeq(str, (CHOOSE i \in Colons(str) : TRUE) + 1, Len(str))

(* The digits of a port segment: u16::from_str lets one '+' precede them. *)
PortDigits(seg) ==
    IF Len(seg) > 0 /\ seg[1] = "+" THEN SubSeq(seg, 2, Len(seg)) ELSE seg

IsNumeric(seg) ==
    /\ Len(PortDigits(seg)) > 0
    /\ \A i \in 1 .. Len(PortDigits(seg)) : IsDigit(PortDigits(seg)[i])

RECURSIVE Decimal(_)
Decimal(digits) ==
    IF Len(digits) = 0 THEN 0
    ELSE 10 * Decimal(SubSeq(digits, 1, Len(digits) - 1))
         + DigitValue(digits[Len(digits)])

ValidAddress(str) ==
    /\ Cardinality(Colons(str)) = 1
    /\ IsNumeric(PortSegment(str))
    /\ Decimal(PortDigits(PortSegment(str))) <= MaxU16

(* C10: a string with exactly one colon whose port segment is a decimal
   number that fits 16 bits parses to the host segment (empty or not) and
   the port's value; every other string (no colon, more than one colon, a
   port segment that is missing, not a number or too large) yields an error
   value. *)
C10_ServerAddress ==
    parsed # None =>
        IF ValidAddress(data)
        THEN /\ parsed[1].ok
             /\ parsed[1].host = HostSegment(data)
             /\ parsed[1].port = Decimal(PortDigits(PortSegment(data)))
        ELSE ~parsed[1].ok

C10_Witness ==
    /\ data = << ":", "9", "0", "9", "0" >>
    /\ parsed = Some(ParseOk(<< >>, 9090))

(***************************************************************************)
(* The native resources of the virtual devices.                            *)
(***************************************************************************)
Count(calls, name) == Cardinality({i \in 1 .. Len(calls) : calls[i] = name})
IndexOf(calls, name) == CHOOSE i \in 1 .. Len(calls) : calls[i] = name

(* C11: new_sync leaks nothing on a failure path.  When libevdev_new returns
   null nothing is freed and an error is returned; when the enabling of an
   event type or of an event code fails, or the creation of the uinput
   handle fails, the descriptor is freed exactly once, as the last native
   call, no handle exists, and the error carries the negated value the
   failing call returned. *)
C11_NewSyncNoLeak ==
    nsResult # None =>
        LET r == nsResult[1]
        IN  /\ r.ok <=> nsFault = NoFault
            /\ nsFault = FaultNew =>
                  /\ r.calls = << >>
                  /\ r.err = IoOther("Failed to create device")
            /\ nsFault.at \in {"setup_evdev", "libevdev_uinput_create_from_device"} =>
                  /\ Count(r.calls, "libevdev_new") = 1
                  /\ Count(r.calls, "libevdev_free") = 1
                  /\ r.calls[Len(r.calls)] = "libevdev_free"
                  /\ Count(r.calls, "libevdev_uinput_create_from_device") = 0
                  /\ Count(r.calls, "libevdev_uinput_destroy") = 0
                  /\ r.err = OsError(-nsRet)

(* the enabling of a key code of the keyboard fails with -2 *)
C11_Witness ==
    /\ nsDevType = "Keyboard"
    /\ nsFault.at = "setup_evdev"
    /\ EnableCalls(KEYBOARD_EVENT_TYPES)[nsFault.step] =
          << "libevdev_enable_event_code", EV_KEY, 30 >>
    /\ nsRet = -2
    /\ nsResult = Some([ok |-> FALSE, calls |-> << "libevdev_new", "libevdev_free" >>,
                        err |-> OsError(2)])

(* C12: over the whole life of a device the uinput handle is destroyed at
   most once and the descriptor freed at most once, the handle of a
   constructed device is destroyed before its descriptor is freed, and a
   device that was dropped has had both released. *)
C12_DestroyThenFree ==
    \A t \in DevTypes :
        /\ Count(native[t], "libevdev_uinput_destroy") <= 1
        /\ Count(native[t], "libevdev_free") <= 1
        /\ Count(native[t], "libevdev_uinput_destroy") = 1 =>
              /\ Count(native[t], "libevdev_uinput_create_from_device") = 1
              /\ Count(native[t], "libevdev_free") = 1
              /\ IndexOf(native[t], "libevdev_uinput_create_from_device")
                    < IndexOf(native[t], "libevdev_uinput_destroy")
              /\ IndexOf(native[t], "libevdev_uinput_destroy")
                    < IndexOf(native[t], "libevdev_free")
        /\ devState[t] = "destroyed" =>
              native[t] = << "libevdev_new", "libevdev_uinput_create_from_device",
                             "libevdev_uinput_destroy", "libevdev_free" >>
        /\ devState[t] = "live" =>
              native[t] = << "libevdev_new", "libevdev_uinput_create_from_device" >>

(* both devices were written to, then dropped by a timeout *)
C12_Witness ==
    /\ pc = "closed"
    /\ err = Error("Read timed out")
    /\ \A t \in DevTypes :
          /\ emitted[t] # << >>
          /\ native[t] = << "libevdev_new", "libevdev_uinput_create_from_device",
                            "libevdev_uinput_destroy", "libevdev_free" >>

Constructed(t) == Count(native[t], "libevdev_uinput_create_from_device") > 0

C13_AllDestroyed ==
    (pc \in {"closed", "cancelled", "panicked"} \/ exitCode # NoExit) =>
        \A t \in DevTypes :
            /\ devState[t] # "live"
            /\ Count(native[t], "libevdev_new") = Count(native[t], "libevdev_free")
            /\ Constructed(t) =>
                  /\ devState[t] = "destroyed"
                  /\ Count(native[t], "libevdev_uinput_destroy") = 1
                  /\ Count(native[t], "libevdev_free") = 1

C13_NoWriteAfterDestroy ==
    \A t \in DevTypes :
        emitted'[t] # emitted[t] =>
            /\ devState[t] = "live"
            /\ Count(native[t], "libevdev_uinput_destroy") = 0
            /\ Count(native[t], "libevdev_free") = 0

(* C13: every device that was constructed is destroyed exactly once on
   every way out of run (the keyboard failing after the mouse was made, a
   timeout, a read error, a device write error, the shutdown signal), and no
   event is written to a device that has been destroyed. *)
C13_DevicesReleased == [](C13_AllDestroyed) /\ [][C13_NoWriteAfterDestroy]_vars

(* the keyboard could not be constructed after the mouse was *)
C13_Witness ==
    /\ pc = "closed"
    /\ err = OsError(1)
    /\ native["Keyboard"] = << "libevdev_new", "libevdev_free" >>
    /\ native["Mouse"] = << "libevdev_new", "libevdev_uinput_create_from_device",
                            "libevdev_uinput_destroy", "libevdev_free" >>

(***************************************************************************)
(* The session.                                                            *)
(***************************************************************************)
C14_KeepAliveState ==
    /\ (lastMsg = MsgKeepAlive /\ err = NoErr /\ sig = "waiting") => pc = "streaming"
    /\ pc = "streaming" => clock = idle
    /\ err = TimeoutError => lastMsg.ok

C14_KeepAliveStep ==
    /\ (lastMsg' = MsgKeepAlive /\ lastMsg # MsgKeepAlive) =>
          /\ pc' = "streaming"
          /\ clock' = 0
          /\ emitted' = emitted
          /\ devState' = devState
          /\ native' = native
    /\ emitted' # emitted => (lastMsg'.tag = "Event" /\ nwrites' = nwrites + 1)
    /\ (pc = "streaming" /\ (lastMsg' # lastMsg \/ nwrites' # nwrites)) => idle' = 0
    /\ (err' = TimeoutError /\ err # TimeoutError) => idle = MESSAGE_TIMEOUT

(* C14: a KeepAlive is followed by no write to either device and leaves the
   loop streaming; the timeout of a read counts from the last message
   delivered (an Event or a KeepAlive), so that the timeout error is raised
   only after the peer has delivered nothing for a full MESSAGE_TIMEOUT. *)
C14_KeepAliveResetsTimeout == [](C14_KeepAliveState) /\ [][C14_KeepAliveStep]_vars

(* a KeepAlive after an Event, one tick into the next read *)
C14_Witness ==
    /\ pc = "streaming"
    /\ lastMsg = MsgKeepAlive
    /\ clock = 1
    /\ nwrites = 1
    /\ Len(emitted["Mouse"]) = 2

C15_SentState ==
    /\ sent \in {<< >>, << PROTOCOL_VERSION >>}
    /\ sent # << >> => handshakes = 1
    /\ pc = "write_version" => (handshakes = 1 /\ sent = << >>)
    /\ pc \in {"read_version", "mouse_new", "keyboard_new", "streaming"} =>
          sent = << PROTOCOL_VERSION >>
    /\ (peerVersion # None \/ lastMsg # NoMsg) => sent = << PROTOCOL_VERSION >>

C15_SentStep ==
    sent' # sent =>
        /\ pc = "write_version"
        /\ pc' = "read_version"
        /\ peerVersion = None
        /\ sent' = << PROTOCOL_VERSION >>

(* C15: the client writes to the stream once in a session: PROTOCOL_VERSION,
   after the TLS handshake succeeded and before the version of the peer is
   read; the loop writes nothing. *)
C15_OnlyVersionWritten == [](C15_SentState) /\ [][C15_SentStep]_vars

(* a session that streamed events and a KeepAlive, then timed out *)
C15_Witness ==
    /\ pc = "closed"
    /\ err = TimeoutError
    /\ nwrites = MaxWrites
    /\ lastMsg = MsgKeepAlive
    /\ sent = << PROTOCOL_VERSION >>

C16_OnceState ==
    /\ races <= 1
    /\ handshakes <= 1
    /\ handshakes <= races

C16_OnceStep ==
    (pc \in {"closed", "cancelled"} \/ exitCode # NoExit) =>
        /\ races' = races
        /\ handshakes' = handshakes
        /\ pc' = pc
        /\ att' = att
        /\ sent' = sent

(* C16: select_all is called at most once and connector.connect at most
   once; once run has ended with an error nothing is attempted again: no
   attempt is made, no handshake started, nothing sent. *)
C16_NoRetry == [](C16_OnceState) /\ [][C16_OnceStep]_vars

(* the client has exited after a device write failed *)
C16_Witness ==
    /\ pc = "closed"
    /\ err = Error("device write")
    /\ exitCode = 1
    /\ races = 1
    /\ handshakes = 1

Translated(t) == {RawTriple(ToRaw(e)) : e \in {w \in Events : DevTypeOf(w) = t}}

WriteFailedOn(t) ==
    /\ lastMsg.tag = "Event"
    /\ ~lastMsg.ok
    /\ DevTypeOf(lastMsg.event[1]) = t

C17_PairsState ==
    /\ \A t \in DevTypes :
          /\ \A i \in 1 .. Len(emitted[t]) :
                IF i % 2 = 1
                THEN emitted[t][i] \in Translated(t)
                ELSE emitted[t][i] = << EV_SYN, SYN_REPORT, 0 >>
          /\ Len(emitted[t]) % 2 = 1 =>
                /\ WriteFailedOn(t)
                /\ emitted[t][Len(emitted[t])] = RawTriple(ToRaw(lastMsg.event[1]))
    /\ ~lastMsg.ok => (pc = "closed" /\ err = Error("device write"))

C17_FailedStep ==
    ~lastMsg.ok =>
        /\ emitted' = emitted
        /\ nwrites' = nwrites
        /\ lastMsg' = lastMsg
        /\ pc' = pc

(* C17: what each device has been sent is a sequence of (translated event,
   sync) pairs, but for a last lone translated event when the write of its
   sync failed; a failed write ends run with its error, is not tried again,
   and nothing is sent to either device after it. *)
C17_PairsUntilFailure == [](C17_PairsState) /\ [][C17_FailedStep]_vars

(* the second write to the keyboard failed at its sync event *)
C17_Witness ==
    /\ pc = "closed"
    /\ err = Error("device write")
    /\ lastMsg = MsgEvent(Key("Up", KindKey("A")), FALSE)
    /\ emitted["Keyboard"] = << << EV_KEY, 30, 1 >>, << EV_SYN, SYN_REPORT, 0 >>,
                                << EV_KEY, 30, 0 >> >>
    /\ emitted["Mouse"] = << >>

(***************************************************************************)
(* Routing against the capability tables.                                  *)
(***************************************************************************)
(* C18: every Event is written to a device whose capability table declares
   the (type, code) of its translation: the mouse for codes within
   MOUSE_EVENT_TYPES, the keyboard for codes within KEYBOARD_EVENT_TYPES,
   Key events of a Button other than Left, Right and Middle included. *)
C18_RoutedWithinCapabilities ==
    lastMsg.tag = "Event" =>
        LET event == lastMsg.event[1]
        IN  Declares(EventTypesOf(DevTypeOf(event)),
                     ToRaw(event).type_, ToRaw(event).code)

(***************************************************************************)
(* The exit of the process.                                                *)
(***************************************************************************)
(* C19: whatever the configuration holds, no entry at all included, the
   process ends with exit code 0 or 1: a race over no candidate ends in an
   error reported with exit code 1, never in an abort. *)
C19_ExitZeroOrOne ==
    /\ pc # "panicked"
    /\ exitCode \in {NoExit, 0, 1}

(***************************************************************************)
(* The winner of the race.                                                 *)
(***************************************************************************)
(* C20: the certificate made the only root of the connector and the
   hostname given to the handshake are those of the server entry whose
   stream won the race and is handed to the handshake. *)
C20_WinnerConsistency ==
    /\ (pc = "raced" /\ res.ok) =>
          (res.server = res.name /\ res.certificate = res.name /\ res.stream = res.name)
    /\ tls.root # 0 =>
          (winner.ok /\ tls.root = winner.certificate /\ tls.root = winner.stream)
    /\ tls.hostname # 0 =>
          /\ tls.stream = winner.stream
          /\ tls.hostname = tls.stream
          /\ tls.root = tls.stream

(* the handshake was made with the second entry, the winner *)
C20_Witness ==
    /\ pc = "write_version"
    /\ winner = ResOk(2)
    /\ tls = [root |-> 2, hostname |-> 2, stream |-> 2]

==========================================================================
